---- MODULE Spec2Model ----
(***************************************************************************)
(* The book repository (BookModel) of khdinarakh/bookGo over its           *)
(* PostgreSQL table "books".  The store executes one SQL statement         *)
(* atomically; a repository call is the caller building the statement's    *)
(* arguments (the ...Call actions) and the store executing it and the      *)
(* result being scanned back (the ...Exec actions); the caller then holds  *)
(* the result until its request ends (Return).  Several callers (HTTP      *)
(* requests) run repository calls concurrently.                            *)
(***************************************************************************)
EXTENDS Integers, Sequences, FiniteSets, TLC

\* ---------------------------------------------------------------- bounds
MaxId == 2          \* values the bigserial sequence may hand out
MaxUuid == 3        \* version tokens uuid_generate_v4() may hand out
MaxPage == 2        \* page numbers a search asks for: 1..MaxPage
MaxTotal == 8       \* record counts handed to calculateMetadata: 0..MaxTotal
MaxSize == 4        \* page sizes handed to calculateMetadata: 0..MaxSize
MaxCount == 12      \* page counts encoded and decoded: 0..MaxCount and the
                    \* ends of the int32 range

Callers == {"c1", "c2"}

\* ------------------------------------------------------------ input data
\* Strings that are searched or tokenised are sequences of words; "" is <<>>.
Hobbit ==
  [title |-> <<"The", "Hobbit">>, content |-> "bilbo leaves", year |-> 1937,
   pages |-> 310, genres |-> <<"fantasy", "adventure">>]
Tales ==
  [title |-> <<"hobbit", "tales">>, content |-> "short tales", year |-> 1937,
   pages |-> 120, genres |-> <<"fantasy">>]
Dune ==
  [title |-> <<"Dune">>, content |-> "arrakis spice", year |-> 1965,
   pages |-> 412, genres |-> <<"scifi">>]

Inputs == {Hobbit, Tales, Dune}

\* A request body without genres ("genres": []), and the bodies of a caller
\* that hands the repository what it received.
Untagged ==
  [title |-> <<"Dune">>, content |-> "arrakis spice", year |-> 1965,
   pages |-> 412, genres |-> <<>>]
RawInputs == {Hobbit, Tales, Untagged}

\* The request body each concurrent caller sends.
Payload(c) == IF c = "c1" THEN {Hobbit} ELSE {Tales}

\* Ids a caller asks for: 0 stands for every id < 1.
IdInputs == 0..MaxId

\* Timestamps NOW() returns; 0 is the zero time.Time.
Times == {1}

\* Search inputs.
TitleQueries == {<<>>, <<"Hobbit">>, <<"hobbit", "tales">>}
ContentQueries == {"", "spice"}
GenreFilters == {<<>>, <<"fantasy">>, <<"fantasy", "adventure">>}
SortInputs == {<<"id">>, <<"year">>, <<"-", "year">>}
PageInputs == 1..MaxPage
PageSizeInputs == {1, 2}

\* Error values of internal/data.
ErrRecordNotFound == "ErrRecordNotFound"
ErrEditConflict == "ErrEditConflict"
StoreError == "StoreError"
ErrInvalidPageFormat == "ErrInvalidPageFormat"
NoError == "nil"

\* What the store round trip does: the statement runs and answers ("none"),
\* fails before it ran ("before"), or runs but the 3 s context deadline
\* expires before the answer is read ("after").
Faults == {"none", "before", "after"}

\* books: the rows of table books; idSeq, uuidSeq: the last id and version
\* token handed out; per caller: pc (idle, sent, done), arg (the statement's
\* arguments), book (the *Book it holds), err and out (what the call
\* returned); overlap: the callers' current calls were in flight together.
VARIABLES books, idSeq, uuidSeq, pc, arg, book, err, out, overlap

vars == <<books, idSeq, uuidSeq, pc, arg, book, err, out, overlap>>

Range(s) == {s[i] : i \in DOMAIN s}

\* The zero value of the Book struct.
ZeroBook ==
  [ID |-> 0, CreatedAt |-> 0, Title |-> <<>>, Content |-> "", Year |-> 0,
   Pages |-> 0, Genres |-> <<>>, Version |-> 0]

\* The zero value of the Metadata struct.
ZeroMetadata ==
  [CurrentPage |-> 0, PageSize |-> 0, FirstPage |-> 0, LastPage |-> 0,
   TotalRecords |-> 0]

\* A nil []*Book and the empty non-nil one.
NilBooks == [isNil |-> TRUE, items |-> <<>>]
NoOut == [books |-> NilBooks, metadata |-> ZeroMetadata]

NoArg == [op |-> "none"]

Init ==
  /\ books = {}
  /\ idSeq = 0
  /\ uuidSeq = 0
  /\ pc = [c \in Callers |-> "idle"]
  /\ arg = [c \in Callers |-> NoArg]
  /\ book = [c \in Callers |-> <<>>]
  /\ err = [c \in Callers |-> NoError]
  /\ out = [c \in Callers |-> NoOut]
  /\ overlap = FALSE

\* The call c sends meets another caller's call in flight.
Meets(c) == \E d \in Callers \ {c} : pc[d] = "sent"

\* ------------------------------------------------------------- the store
\* Faulty variant: the id computed as the largest stored id plus one.
NextvalMaxPlusOne(seq) ==
  IF books = {} THEN 1
  ELSE (CHOOSE i \in {r.id : r \in books} :
          \A j \in {r.id : r \in books} : j <= i) + 1

\* bigserial: nextval of the id sequence.
Nextval(seq) == seq + 1

\* Faulty variant: a generator that returns two tokens in turn.
UuidGenerateTwoTokens(seq) == (seq % 2) + 1

\* uuid_generate_v4(): a token no earlier call returned.
UuidGenerateV4(seq) == seq + 1

\* INSERT INTO books (title, year, content, pages, genres) VALUES (...):
\* id, created_at and version take the column defaults.
InsertRow(a, id, now, uuid) ==
  [id |-> id, created_at |-> now, title |-> a.title, content |-> a.content,
   year |-> a.year, pages |-> a.pages, genres |-> a.genres, version |-> uuid]

\* Faulty variant: &book.Year and &book.Pages swapped in the Scan.
ScanRowSwapped(r) ==
  [ID |-> r.id, CreatedAt |-> r.created_at, Title |-> r.title,
   Content |-> r.content, Year |-> r.pages, Pages |-> r.year,
   Genres |-> r.genres, Version |-> r.version]

\* Scan of a full row into a Book.
ScanRow(r) ==
  [ID |-> r.id, CreatedAt |-> r.created_at, Title |-> r.title,
   Content |-> r.content, Year |-> r.year, Pages |-> r.pages,
   Genres |-> r.genres, Version |-> r.version]

\* RETURNING id, created_at, version scanned into the caller's book.
ScanInsert(b, r) ==
  [b EXCEPT !.ID = r.id, !.CreatedAt = r.created_at, !.Version = r.version]

\* WHERE id = $1 of Get.
GetWhere(r, id) == r.id = id

\* Faulty variant: WHERE version = $7, the id not compared.
UpdateWhereVersionOnly(r, a) == r.version = a.version

\* Faulty variant: WHERE id = $6, the version not compared.
UpdateWhereIdOnly(r, a) == r.id = a.id

\* WHERE id = $6 AND version = $7 of Update.
UpdateWhere(r, a) == r.id = a.id /\ r.version = a.version

\* Faulty variant: the SET clause without genres = $5.
UpdateSetWithoutGenres(r, a, uuid) ==
  [r EXCEPT !.title = a.title, !.content = a.content, !.year = a.year,
            !.pages = a.pages, !.version = uuid]

\* Faulty variant: the SET clause without version = uuid_generate_v4().
UpdateSetKeepVersion(r, a, uuid) ==
  [r EXCEPT !.title = a.title, !.content = a.content, !.year = a.year,
            !.pages = a.pages, !.genres = a.genres]

\* SET title = $1, content = $2, year = $3, pages = $4, genres = $5,
\*     version = uuid_generate_v4()
UpdateSet(r, a, uuid) ==
  [r EXCEPT !.title = a.title, !.content = a.content, !.year = a.year,
            !.pages = a.pages, !.genres = a.genres, !.version = uuid]

\* Faulty variant: WHERE id = $1 AND version = $2, with the Version of a
\* book that was never read.
DeleteWhereVersion(r, id) == r.id = id /\ r.version = ZeroBook.Version

\* Faulty variant: DELETE FROM books without its WHERE clause.
DeleteWhereMissing(r, id) == TRUE

\* WHERE id = $1 of Delete.
DeleteWhere(r, id) == r.id = id

\* Faulty variant: the guard written id < 0.
GetShortCircuitNegative(id) == id < 0

\* if id < 1 { return ErrRecordNotFound } of Get and of Delete.
GetShortCircuit(id) == id < 1
DeleteShortCircuit(id) == id < 1

\* The Book a caller builds from its input before a call.
NewBook(in) ==
  [ZeroBook EXCEPT !.Title = in.title, !.Content = in.content,
                   !.Year = in.year, !.Pages = in.pages, !.Genres = in.genres]

\* len(book.Title): the bytes of the words and of the spaces between them.
RECURSIVE ByteLen(_)
ByteLen(title) ==
  IF title = <<>> THEN 0
  ELSE IF Len(title) = 1 THEN Len(title[1])
  ELSE Len(Head(title)) + 1 + ByteLen(Tail(title))

\* time.Now().Year()
CurrentYear == 2026

\* Faulty variant: the check len(book.Genres) >= 1 left out.
ValidateBookAnyGenres(b) ==
  /\ b.Title # <<>>
  /\ ByteLen(b.Title) <= 500
  /\ Len(b.Content) >= 10
  /\ b.Year # 0
  /\ b.Year >= 1888
  /\ b.Year <= CurrentYear
  /\ b.Pages # 0
  /\ b.Pages > 0
  /\ Len(b.Genres) <= 5
  /\ Cardinality(Range(b.Genres)) = Len(b.Genres)

\* ValidateBook: every check passes.  A nil Genres is an empty one here.
ValidateBook(b) ==
  /\ b.Title # <<>>
  /\ ByteLen(b.Title) <= 500
  /\ Len(b.Content) >= 10
  /\ b.Year # 0
  /\ b.Year >= 1888
  /\ b.Year <= CurrentYear
  /\ b.Pages # 0
  /\ b.Pages > 0
  /\ Len(b.Genres) >= 1
  /\ Len(b.Genres) <= 5
  /\ Cardinality(Range(b.Genres)) = Len(b.Genres)

\* ------------------------------------------------------------- Insert
InsertArgs(b) ==
  [op |-> "Insert", title |-> b.Title, year |-> b.Year, content |-> b.Content,
   pages |-> b.Pages, genres |-> b.Genres]

InsertCall(c, in) ==
  /\ pc[c] = "idle"
  /\ idSeq < MaxId
  /\ uuidSeq < MaxUuid
  /\ book' = [book EXCEPT ![c] = <<NewBook(in)>>]
  /\ arg' = [arg EXCEPT ![c] = InsertArgs(NewBook(in))]
  /\ pc' = [pc EXCEPT ![c] = "sent"]
  /\ overlap' = Meets(c)
  /\ err' = [err EXCEPT ![c] = NoError]
  /\ out' = [out EXCEPT ![c] = NoOut]
  /\ UNCHANGED <<books, idSeq, uuidSeq>>

InsertExec(c) ==
  /\ pc[c] = "sent"
  /\ arg[c].op = "Insert"
  /\ \E fault \in Faults, now \in Times :
       IF fault = "before"
       THEN /\ err' = [err EXCEPT ![c] = StoreError]
            /\ UNCHANGED <<books, idSeq, uuidSeq, book>>
       ELSE /\ idSeq < MaxId
            /\ uuidSeq < MaxUuid
            /\ LET row == InsertRow(arg[c], Nextval(idSeq), now,
                                    UuidGenerateV4(uuidSeq))
               IN /\ books' = books \cup {row}
                  /\ idSeq' = Nextval(idSeq)
                  /\ uuidSeq' = UuidGenerateV4(uuidSeq)
                  /\ IF fault = "after"
                     THEN /\ err' = [err EXCEPT ![c] = StoreError]
                          /\ UNCHANGED book
                     ELSE /\ err' = [err EXCEPT ![c] = NoError]
                          /\ book' = [book EXCEPT
                                        ![c] = <<ScanInsert(book[c][1], row)>>]
  /\ pc' = [pc EXCEPT ![c] = "done"]
  /\ UNCHANGED <<arg, out, overlap>>

\* ---------------------------------------------------------------- Get
GetCall(c, id) ==
  /\ pc[c] = "idle"
  /\ arg' = [arg EXCEPT ![c] = [op |-> "Get", id |-> id]]
  /\ book' = [book EXCEPT ![c] = <<>>]
  /\ out' = [out EXCEPT ![c] = NoOut]
  /\ IF GetShortCircuit(id)
     THEN /\ err' = [err EXCEPT ![c] = ErrRecordNotFound]
          /\ pc' = [pc EXCEPT ![c] = "done"]
          /\ UNCHANGED overlap
     ELSE /\ err' = [err EXCEPT ![c] = NoError]
          /\ pc' = [pc EXCEPT ![c] = "sent"]
          /\ overlap' = Meets(c)
  /\ UNCHANGED <<books, idSeq, uuidSeq>>

GetExec(c) ==
  /\ pc[c] = "sent"
  /\ arg[c].op = "Get"
  /\ \E fault \in {"none", "before"} :
       LET rows == {r \in books : GetWhere(r, arg[c].id)}
       IN IF fault = "before"
          THEN /\ err' = [err EXCEPT ![c] = StoreError]
               /\ UNCHANGED book
          ELSE IF rows = {}
          THEN /\ err' = [err EXCEPT ![c] = ErrRecordNotFound]
               /\ UNCHANGED book
          ELSE /\ err' = [err EXCEPT ![c] = NoError]
               /\ \E r \in rows : book' = [book EXCEPT ![c] = <<ScanRow(r)>>]
  /\ pc' = [pc EXCEPT ![c] = "done"]
  /\ UNCHANGED <<books, idSeq, uuidSeq, arg, out, overlap>>

\* ------------------------------------------------------------- Update
UpdateArgs(b) ==
  [op |-> "Update", title |-> b.Title, content |-> b.Content, year |-> b.Year,
   pages |-> b.Pages, genres |-> b.Genres, id |-> b.ID, version |-> b.Version]

\* The caller's book: the ID and Version it read before, the new fields.
UpdateCall(c, id, version, in) ==
  /\ pc[c] = "idle"
  /\ LET b == [NewBook(in) EXCEPT !.ID = id, !.Version = version]
     IN /\ book' = [book EXCEPT ![c] = <<b>>]
        /\ arg' = [arg EXCEPT ![c] = UpdateArgs(b)]
  /\ pc' = [pc EXCEPT ![c] = "sent"]
  /\ overlap' = Meets(c)
  /\ err' = [err EXCEPT ![c] = NoError]
  /\ out' = [out EXCEPT ![c] = NoOut]
  /\ UNCHANGED <<books, idSeq, uuidSeq>>

UpdateExec(c) ==
  /\ pc[c] = "sent"
  /\ arg[c].op = "Update"
  /\ \E fault \in Faults :
       LET rows == {r \in books : UpdateWhere(r, arg[c])}
           uuid == UuidGenerateV4(uuidSeq)
       IN IF fault = "before"
          THEN /\ err' = [err EXCEPT ![c] = StoreError]
               /\ UNCHANGED <<books, uuidSeq, book>>
          ELSE IF rows = {}
          THEN /\ fault = "none"
               /\ err' = [err EXCEPT ![c] = ErrEditConflict]
               /\ UNCHANGED <<books, uuidSeq, book>>
          ELSE /\ uuidSeq < MaxUuid
               /\ books' = (books \ rows) \cup
                             {UpdateSet(r, arg[c], uuid) : r \in rows}
               /\ uuidSeq' = uuid
               /\ IF fault = "after"
                  THEN /\ err' = [err EXCEPT ![c] = StoreError]
                       /\ UNCHANGED book
                  ELSE /\ err' = [err EXCEPT ![c] = NoError]
                       /\ book' = [book EXCEPT ![c] =
                                     <<[book[c][1] EXCEPT !.Version = uuid]>>]
  /\ pc' = [pc EXCEPT ![c] = "done"]
  /\ UNCHANGED <<idSeq, arg, out, overlap>>

\* ------------------------------------------------------------- Delete
DeleteCall(c, id) ==
  /\ pc[c] = "idle"
  /\ arg' = [arg EXCEPT ![c] = [op |-> "Delete", id |-> id]]
  /\ book' = [book EXCEPT ![c] = <<>>]
  /\ out' = [out EXCEPT ![c] = NoOut]
  /\ IF DeleteShortCircuit(id)
     THEN /\ err' = [err EXCEPT ![c] = ErrRecordNotFound]
          /\ pc' = [pc EXCEPT ![c] = "done"]
          /\ UNCHANGED overlap
     ELSE /\ err' = [err EXCEPT ![c] = NoError]
          /\ pc' = [pc EXCEPT ![c] = "sent"]
          /\ overlap' = Meets(c)
  /\ UNCHANGED <<books, idSeq, uuidSeq>>

DeleteExec(c) ==
  /\ pc[c] = "sent"
  /\ arg[c].op = "Delete"
  /\ \E fault \in Faults :
       LET rows == {r \in books : DeleteWhere(r, arg[c].id)}
           rowsAffected == Cardinality(rows)
       IN IF fault = "before"
          THEN /\ err' = [err EXCEPT ![c] = StoreError]
               /\ UNCHANGED books
          ELSE /\ books' = books \ rows
               /\ IF fault = "after"
                  THEN /\ rowsAffected > 0
                       /\ err' = [err EXCEPT ![c] = StoreError]
                  ELSE IF rowsAffected = 0
                  THEN err' = [err EXCEPT ![c] = ErrRecordNotFound]
                  ELSE err' = [err EXCEPT ![c] = NoError]
  /\ pc' = [pc EXCEPT ![c] = "done"]
  /\ UNCHANGED <<idSeq, uuidSeq, arg, book, out, overlap>>

\* ------------------------------------------------------------- GetAll
\* to_tsvector('simple', ...) and plainto_tsquery('simple', ...) lower-case
\* every word; the 'simple' configuration neither stems nor drops stop words.
Lower(w) ==
  CASE w = "The" -> "the"
    [] w = "Hobbit" -> "hobbit"
    [] w = "Dune" -> "dune"
    [] OTHER -> w

ToTsvector(title) == {Lower(title[i]) : i \in DOMAIN title}

\* plainto_tsquery: the AND of the query's lexemes.
PlaintoTsquery(q) == {Lower(q[i]) : i \in DOMAIN q}

\* tsvector @@ tsquery; a query without lexemes matches nothing.
TsMatch(vec, query) == query # {} /\ query \subseteq vec

\* Faulty variant: genres && $2, the arrays overlap.
ArrayOverlaps(a, b) == Range(b) \cap Range(a) # {}

\* genres @> $2
ArrayContains(a, b) == Range(b) \subseteq Range(a)

\* WHERE (to_tsvector('simple', title) @@ plainto_tsquery('simple', $1) OR $1 = '')
\* AND (genres @> $2 OR $2 = '{}')
GetAllWhere(r, a) ==
  /\ TsMatch(ToTsvector(r.title), PlaintoTsquery(a.title)) \/ a.title = <<>>
  /\ ArrayContains(r.genres, a.genres) \/ a.genres = <<>>

\* Filters (its file is not among the sources): the sort column is the
\* sort string without its leading "-", the direction DESC with it.
SortSafelist == {<<"id">>, <<"-", "id">>, <<"year">>, <<"-", "year">>,
                 <<"pages">>, <<"-", "pages">>}
sortColumn(f) == IF Head(f.Sort) = "-" THEN f.Sort[2] ELSE f.Sort[1]
sortDirection(f) == IF Head(f.Sort) = "-" THEN "DESC" ELSE "ASC"
limit(f) == f.PageSize
offset(f) == (f.Page - 1) * f.PageSize

Column(r, col) ==
  CASE col = "id" -> r.id
    [] col = "year" -> r.year
    [] col = "pages" -> r.pages

\* Faulty variant: ORDER BY %s %s, id DESC.
RowBeforeTieDescending(r, q, col, dir) ==
  \/ dir = "ASC" /\ Column(r, col) < Column(q, col)
  \/ dir = "DESC" /\ Column(r, col) > Column(q, col)
  \/ Column(r, col) = Column(q, col) /\ r.id > q.id

\* ORDER BY %s %s, id ASC
RowBefore(r, q, col, dir) ==
  \/ dir = "ASC" /\ Column(r, col) < Column(q, col)
  \/ dir = "DESC" /\ Column(r, col) > Column(q, col)
  \/ Column(r, col) = Column(q, col) /\ r.id < q.id

RECURSIVE OrderBy(_, _, _)
OrderBy(S, col, dir) ==
  IF S = {} THEN <<>>
  ELSE LET first == CHOOSE r \in S :
                      \A q \in S \ {r} : RowBefore(r, q, col, dir)
       IN <<first>> \o OrderBy(S \ {first}, col, dir)

Min(a, b) == IF a < b THEN a ELSE b

\* LIMIT $3 OFFSET $4
LimitOffset(s, lim, off) == SubSeq(s, off + 1, Min(Len(s), off + lim))

\* count(*) OVER(): the number of rows the WHERE clause selects, carried by
\* every row that is returned.
CountOver(matched) == Cardinality(matched)

\* The result set of the query: the rows of the window, each with the count.
GetAllQuery(rows, a) ==
  LET matched == {r \in rows : GetAllWhere(r, a)}
      sorted == OrderBy(matched, sortColumn(a.filters), sortDirection(a.filters))
      window == LimitOffset(sorted, limit(a.filters), offset(a.filters))
  IN [i \in DOMAIN window |->
        [count |-> CountOver(matched), row |-> window[i]]]

\* Faulty variant: the rows of the page counted instead of the count column read.
ScanTotalRecordsOfPage(result) == Len(result)

\* totalRecords := 0, then overwritten by the Scan of every row.
ScanTotalRecords(result) ==
  IF result = <<>> THEN 0 ELSE result[Len(result)].count

\* Faulty variant: var books []*Book, nil until the first append.
ScanBooksFromNil(result) ==
  IF result = <<>> THEN NilBooks
  ELSE [isNil |-> FALSE,
        items |-> [i \in DOMAIN result |-> ScanRow(result[i].row)]]

\* books := []*Book{}, then one append per row.
ScanBooks(result) ==
  [isNil |-> FALSE, items |-> [i \in DOMAIN result |-> ScanRow(result[i].row)]]

\* Faulty variant: the last page rounded down.
calculateMetadataFloor(totalRecords, page, pageSize) ==
  IF totalRecords = 0 THEN ZeroMetadata
  ELSE [CurrentPage |-> page, PageSize |-> pageSize, FirstPage |-> 1,
        LastPage |-> totalRecords \div pageSize,
        TotalRecords |-> totalRecords]

\* calculateMetadata (its file is not among the sources).
calculateMetadata(totalRecords, page, pageSize) ==
  IF totalRecords = 0 THEN ZeroMetadata
  ELSE [CurrentPage |-> page, PageSize |-> pageSize, FirstPage |-> 1,
        LastPage |-> (totalRecords + pageSize - 1) \div pageSize,
        TotalRecords |-> totalRecords]

GetAllCall(c, title, content, genres, filters) ==
  /\ pc[c] = "idle"
  /\ arg' = [arg EXCEPT ![c] =
               [op |-> "GetAll", title |-> title, content |-> content,
                genres |-> genres, filters |-> filters]]
  /\ book' = [book EXCEPT ![c] = <<>>]
  /\ out' = [out EXCEPT ![c] = NoOut]
  /\ err' = [err EXCEPT ![c] = NoError]
  /\ pc' = [pc EXCEPT ![c] = "sent"]
  /\ overlap' = Meets(c)
  /\ UNCHANGED <<books, idSeq, uuidSeq>>

GetAllExec(c) ==
  /\ pc[c] = "sent"
  /\ arg[c].op = "GetAll"
  /\ \E fault \in {"none", "before"} :
       IF fault = "before"
       THEN /\ err' = [err EXCEPT ![c] = StoreError]
            /\ out' = [out EXCEPT ![c] = NoOut]
       ELSE LET result == GetAllQuery(books, arg[c])
                totalRecords == ScanTotalRecords(result)
            IN /\ err' = [err EXCEPT ![c] = NoError]
               /\ out' = [out EXCEPT ![c] =
                            [books |-> ScanBooks(result),
                             metadata |-> calculateMetadata(
                                totalRecords, arg[c].filters.Page,
                                arg[c].filters.PageSize)]]
  /\ pc' = [pc EXCEPT ![c] = "done"]
  /\ UNCHANGED <<books, idSeq, uuidSeq, arg, book, overlap>>

\* ---------------------------------------------------- calculateMetadata
\* The call of calculateMetadata on its own: the caller's out holds the
\* Metadata returned.  With totalRecords > 0 the page size is positive (the
\* caller has validated its filters).
CalculateMetadataCall(c, totalRecords, page, pageSize) ==
  /\ pc[c] = "idle"
  /\ totalRecords = 0 \/ pageSize > 0
  /\ arg' = [arg EXCEPT ![c] =
               [op |-> "calculateMetadata", totalRecords |-> totalRecords,
                page |-> page, pageSize |-> pageSize]]
  /\ out' = [out EXCEPT ![c] =
               [books |-> NilBooks,
                metadata |-> calculateMetadata(totalRecords, page, pageSize)]]
  /\ pc' = [pc EXCEPT ![c] = "done"]
  /\ UNCHANGED <<books, idSeq, uuidSeq, book, err, overlap>>

\* -------------------------------------------------------------- Pages
\* A text is a sequence of one-character strings.  type Pages int32.
MaxInt32 == 2147483647
MinInt32 == -MaxInt32 - 1

\* The double quote, and the names of the apostrophe and the back quote.
DQ == "\""
SQ == "apostrophe"
BQ == "backquote"
DigitChars == <<"0", "1", "2", "3", "4", "5", "6", "7", "8", "9">>
PagesWord == <<"p", "a", "g", "e", "s">>

IsDigit(ch) == \E i \in DOMAIN DigitChars : DigitChars[i] = ch
DigitValue(ch) == (CHOOSE i \in DOMAIN DigitChars : DigitChars[i] = ch) - 1

\* %d of a value >= 0, and the digits of a value < 0.
RECURSIVE FormatNat(_)
FormatNat(n) ==
  IF n < 10 THEN <<DigitChars[n + 1]>>
  ELSE FormatNat(n \div 10) \o <<DigitChars[(n % 10) + 1]>>

RECURSIVE FormatNeg(_)
FormatNeg(n) ==
  LET d == (10 - (n % 10)) % 10
      q == (n + d) \div 10
  IN IF q = 0 THEN <<DigitChars[d + 1]>>
     ELSE FormatNeg(q) \o <<DigitChars[d + 1]>>

\* fmt.Sprintf("%d pages", r)
Sprintf(r) ==
  (IF r < 0 THEN <<"-">> \o FormatNeg(r) ELSE FormatNat(r))
    \o <<" ">> \o PagesWord

\* strconv.Quote of a text of digits, "-", " " and letters: nothing to escape.
Quote(s) == <<DQ>> \o s \o <<DQ>>

MarshalJSON(r) == Quote(Sprintf(r))

\* strconv.Unquote of a text without backslash and line break: a
\* double-quoted or back-quoted string literal, or a single-quoted
\* character literal.
Unquote(s) ==
  LET fail == [ok |-> FALSE, value |-> <<>>]
  IN IF Len(s) < 2 THEN fail
     ELSE LET quote == s[1]
              inner == SubSeq(s, 2, Len(s) - 1)
          IN IF quote # s[Len(s)] THEN fail
             ELSE IF quote \notin {DQ, BQ, SQ} THEN fail
             ELSE IF quote \in Range(inner) THEN fail
             ELSE IF quote = SQ /\ Len(inner) # 1 THEN fail
             ELSE [ok |-> TRUE, value |-> inner]

\* Faulty variant: strings.Fields, which splits around runs of white space.
RECURSIVE SplitFields(_, _)
SplitFields(s, sep) ==
  IF s = <<>> THEN <<>>
  ELSE IF Head(s) = sep THEN SplitFields(Tail(s), sep)
  ELSE IF sep \notin Range(s) THEN <<s>>
  ELSE LET i == CHOOSE k \in DOMAIN s :
                  s[k] = sep /\ \A j \in 1..(k - 1) : s[j] # sep
       IN <<SubSeq(s, 1, i - 1)>> \o SplitFields(SubSeq(s, i + 1, Len(s)), sep)

\* strings.Split(s, sep) for a one-character sep.
RECURSIVE Split(_, _)
Split(s, sep) ==
  IF sep \notin Range(s) THEN <<s>>
  ELSE LET i == CHOOSE k \in DOMAIN s :
                  s[k] = sep /\ \A j \in 1..(k - 1) : s[j] # sep
       IN <<SubSeq(s, 1, i - 1)>> \o Split(SubSeq(s, i + 1, Len(s)), sep)

\* The digits of strconv.ParseInt(s, 10, 32), accumulated below zero so that
\* the whole int32 range is reached; fails on a character that is no digit
\* and on a value out of range.
RECURSIVE ParseDigits(_, _)
ParseDigits(s, acc) ==
  IF s = <<>> THEN [ok |-> TRUE, value |-> acc]
  ELSE IF ~IsDigit(Head(s)) THEN [ok |-> FALSE, value |-> 0]
  ELSE LET d == DigitValue(Head(s))
       IN IF acc < (MinInt32 + d + 9) \div 10
          THEN [ok |-> FALSE, value |-> 0]
          ELSE ParseDigits(Tail(s), acc * 10 - d)

\* strconv.ParseInt(s, 10, 32)
ParseInt(s) ==
  LET fail == [ok |-> FALSE, value |-> 0]
  IN IF s = <<>> THEN fail
     ELSE LET neg == Head(s) = "-"
              digits == IF Head(s) \in {"+", "-"} THEN Tail(s) ELSE s
              m == ParseDigits(digits, 0)
          IN IF digits = <<>> \/ ~m.ok THEN fail
             ELSE IF neg THEN [ok |-> TRUE, value |-> m.value]
             ELSE IF m.value = MinInt32 THEN fail
             ELSE [ok |-> TRUE, value |-> -m.value]

\* (r *Pages).UnmarshalJSON(jsonValue): the error returned and *r afterwards.
UnmarshalJSON(r, jsonValue) ==
  LET unquoted == Unquote(jsonValue)
      parts == Split(unquoted.value, " ")
      i == ParseInt(parts[1])
  IN IF ~unquoted.ok THEN [err |-> ErrInvalidPageFormat, r |-> r]
     ELSE IF Len(parts) # 2 \/ parts[2] # PagesWord
     THEN [err |-> ErrInvalidPageFormat, r |-> r]
     ELSE IF ~i.ok THEN [err |-> ErrInvalidPageFormat, r |-> r]
     ELSE [err |-> NoError, r |-> i.value]

\* Page counts that are encoded, and that a decoding target holds before.
PagesValues == (0..MaxCount) \cup {-3, 310, MaxInt32, MinInt32}
TargetValues == {0, 7}

\* The count, separator, unit and quoting of the texts that are decoded.
CountTexts ==
  {SubSeq(Sprintf(n), 1, Len(Sprintf(n)) - 6) : n \in PagesValues} \cup
  {<<"2", "1", "4", "7", "4", "8", "3", "6", "4", "8">>,
   <<"-", "2", "1", "4", "7", "4", "8", "3", "6", "4", "9">>,
   <<"9", "9", "9", "9", "9", "9", "9", "9", "9", "9", "9">>,
   <<"+", "5">>, <<"0", "0", "7">>, <<"1", ".", "5">>, <<"x">>, <<"-">>, <<>>}
SeparatorTexts == {<<" ">>, <<>>, <<" ", " ">>}
UnitTexts == {PagesWord, <<"p", "a", "g", "e">>, PagesWord \o <<" ">>, <<>>}
QuoteTexts == {<<DQ, DQ>>, <<BQ, BQ>>, <<SQ, SQ>>, <<DQ, "">>, <<"", "">>}

Text(q) == IF q = "" THEN <<>> ELSE <<q>>

JsonTexts ==
  {Text(q[1]) \o lead \o count \o sep \o unit \o Text(q[2]) :
     q \in QuoteTexts, lead \in {<<>>, <<" ">>}, count \in CountTexts,
     sep \in SeparatorTexts, unit \in UnitTexts}

\* The calls on their own: out holds the bytes MarshalJSON returned, book the
\* record whose Pages field UnmarshalJSON decoded into.
MarshalJSONCall(c, r) ==
  /\ pc[c] = "idle"
  /\ arg' = [arg EXCEPT ![c] = [op |-> "MarshalJSON", r |-> r]]
  /\ out' = [out EXCEPT ![c] = [json |-> MarshalJSON(r)]]
  /\ pc' = [pc EXCEPT ![c] = "done"]
  /\ UNCHANGED <<books, idSeq, uuidSeq, book, err, overlap>>

UnmarshalJSONCall(c, r, jsonValue) ==
  /\ pc[c] = "idle"
  /\ LET res == UnmarshalJSON(r, jsonValue)
     IN /\ book' = [book EXCEPT ![c] = <<[ZeroBook EXCEPT !.Pages = res.r]>>]
        /\ err' = [err EXCEPT ![c] = res.err]
  /\ arg' = [arg EXCEPT ![c] =
               [op |-> "UnmarshalJSON", r |-> r, jsonValue |-> jsonValue]]
  /\ pc' = [pc EXCEPT ![c] = "done"]
  /\ UNCHANGED <<books, idSeq, uuidSeq, out, overlap>>

\* ------------------------------------------------------------- Return
\* The request that made the call ends; its book, results and error go
\* out of scope.
Return(c) ==
  /\ pc[c] = "done"
  /\ pc' = [pc EXCEPT ![c] = "idle"]
  /\ arg' = [arg EXCEPT ![c] = NoArg]
  /\ book' = [book EXCEPT ![c] = <<>>]
  /\ err' = [err EXCEPT ![c] = NoError]
  /\ out' = [out EXCEPT ![c] = NoOut]
  /\ overlap' = FALSE
  /\ UNCHANGED <<books, idSeq, uuidSeq>>

\* ---------------------------------------------------------- specification
\* Two callers whose calls interleave at the store.
Next ==
  \E c \in Callers :
    \/ \E in \in Payload(c) : InsertCall(c, in)
    \/ InsertExec(c)
    \/ \E id \in IdInputs : GetCall(c, id)
    \/ GetExec(c)
    \/ \E id \in 1..MaxId, v \in 1..uuidSeq, in \in Payload(c) :
         UpdateCall(c, id, v, in)
    \/ UpdateExec(c)
    \/ \E id \in IdInputs : DeleteCall(c, id)
    \/ DeleteExec(c)
    \/ Return(c)

Spec == Init /\ [][Next]_vars

\* One caller that fills, changes and searches the catalogue.
FiltersInputs ==
  [Page : PageInputs, PageSize : PageSizeInputs, Sort : SortInputs]

NextSearch ==
  \/ \E in \in Inputs : InsertCall("c1", in)
  \/ InsertExec("c1")
  \/ \E id \in 1..MaxId, v \in 1..uuidSeq, in \in Inputs :
       UpdateCall("c1", id, v, in)
  \/ UpdateExec("c1")
  \/ \E id \in IdInputs : DeleteCall("c1", id)
  \/ DeleteExec("c1")
  \/ \E title \in TitleQueries, content \in ContentQueries,
        genres \in GenreFilters, filters \in FiltersInputs :
       GetAllCall("c1", title, content, genres, filters)
  \/ GetAllExec("c1")
  \/ Return("c1")

SpecSearch == Init /\ [][NextSearch]_vars

\* One caller that hands the repository the bodies as it received them.
NextUnvalidated ==
  \/ \E in \in RawInputs : InsertCall("c1", in)
  \/ InsertExec("c1")
  \/ \E id \in IdInputs : GetCall("c1", id)
  \/ GetExec("c1")
  \/ \E id \in 1..MaxId, v \in 1..uuidSeq, in \in RawInputs :
       UpdateCall("c1", id, v, in)
  \/ UpdateExec("c1")
  \/ \E id \in IdInputs : DeleteCall("c1", id)
  \/ DeleteExec("c1")
  \/ Return("c1")

SpecUnvalidated == Init /\ [][NextUnvalidated]_vars

\* A caller that writes and a caller that reads what is stored meanwhile.
WriterInputs == {Hobbit, Tales}
ReaderFilters == [Page : {1}, PageSize : {2}, Sort : {<<"id">>, <<"-", "year">>}]

NextObserve ==
  \/ \E in \in WriterInputs : InsertCall("c1", in)
  \/ InsertExec("c1")
  \/ \E id \in 1..MaxId, v \in 1..uuidSeq, in \in WriterInputs :
       UpdateCall("c1", id, v, in)
  \/ UpdateExec("c1")
  \/ \E id \in 1..MaxId : GetCall("c2", id)
  \/ GetExec("c2")
  \/ \E filters \in ReaderFilters : GetAllCall("c2", <<>>, "", <<>>, filters)
  \/ GetAllExec("c2")
  \/ \E c \in Callers : Return(c)

SpecObserve == Init /\ [][NextObserve]_vars

\* One caller that computes pagination metadata.
NextMetadata ==
  \/ \E totalRecords \in 0..MaxTotal, page \in 0..MaxPage,
        pageSize \in 0..MaxSize :
       CalculateMetadataCall("c1", totalRecords, page, pageSize)
  \/ Return("c1")

SpecMetadata == Init /\ [][NextMetadata]_vars

\* One caller that encodes and decodes page counts.
NextPages ==
  \/ \E r \in PagesValues : MarshalJSONCall("c1", r)
  \/ \E r \in TargetValues, jsonValue \in JsonTexts :
       UnmarshalJSONCall("c1", r, jsonValue)
  \/ Return("c1")

SpecPages == Init /\ [][NextPages]_vars

\* =================================================================
\* Properties
\* =================================================================
Ids(rows) == {r.id : r \in rows}

Done(c, op) == pc[c] = "done" /\ arg[c].op = op

\* Caller c's call is executed by the store in this step.
Exec(c, op) == pc[c] = "sent" /\ arg[c].op = op /\ pc'[c] = "done"

\* The store answered the call (no transport failure, no deadline expiry).
Answered(e) == e # StoreError

\* The mutable fields of a row equal the ones a statement supplies.
HoldsFields(r, a) ==
  /\ r.title = a.title
  /\ r.content = a.content
  /\ r.year = a.year
  /\ r.pages = a.pages
  /\ r.genres = a.genres

\* Two Updates that were in flight together, for the same record and with
\* the same previously-read Version, and have both finished.
RacedUpdates(c, d) ==
  /\ c # d
  /\ overlap
  /\ Done(c, "Update")
  /\ Done(d, "Update")
  /\ arg[c].id = arg[d].id
  /\ arg[c].version = arg[d].version

\* C1: of two Updates that race on one record with the same previously-read
\* Version at most one returns success, and once both have finished the
\* stored record holds the fields (and the new Version) of the one that
\* succeeded.
C1_AtMostOneRacingUpdateWins ==
  \A c, d \in Callers :
    RacedUpdates(c, d) =>
      /\ ~(err[c] = NoError /\ err[d] = NoError)
      /\ err[c] = NoError =>
           \E r \in books :
             /\ r.id = arg[c].id
             /\ HoldsFields(r, arg[c])
             /\ ~HoldsFields(r, arg[d])
             /\ r.version = book[c][1].Version

C1_Witness ==
  \E c, d \in Callers :
    /\ RacedUpdates(c, d)
    /\ err[c] = NoError
    /\ err[d] = ErrEditConflict
    /\ \E r \in books : r.id = arg[c].id /\ HoldsFields(r, arg[c])

\* C2: whenever the store executes an Update of an existing record whose
\* supplied Version differs from the stored one, the call returns
\* ErrEditConflict and neither the table nor the caller's book changes.
C2_StaleUpdateConflicts ==
  [][\A c \in Callers :
       (/\ Exec(c, "Update")
        /\ Answered(err'[c])
        /\ \E r \in books : r.id = arg[c].id /\ r.version # arg[c].version)
       => /\ err'[c] = ErrEditConflict
          /\ books' = books
          /\ book'[c] = book[c]]_vars

C2_Witness ==
  \E c \in Callers :
    /\ Done(c, "Update")
    /\ err[c] = ErrEditConflict
    /\ \E r \in books :
         /\ r.id = arg[c].id
         /\ r.version # arg[c].version
         /\ ~HoldsFields(r, arg[c])

\* C3: whenever the store executes an Update that supplies the stored
\* Version of an existing record, the call succeeds, the stored record gets
\* the supplied fields and a new Version, and the Version written back to
\* the caller's book is the stored one and differs from the one supplied.
C3_CurrentVersionUpdateSucceeds ==
  [][\A c \in Callers :
       (/\ Exec(c, "Update")
        /\ Answered(err'[c])
        /\ \E r \in books : r.id = arg[c].id /\ r.version = arg[c].version)
       => /\ err'[c] = NoError
          /\ \E r \in books' :
               /\ r.id = arg[c].id
               /\ HoldsFields(r, arg[c])
               /\ r.version # arg[c].version
               /\ r.version \notin {q.version : q \in books}
               /\ book'[c][1].Version = r.version
          /\ book'[c][1].Version # book[c][1].Version]_vars

\* The record another caller inserted has been updated to new fields.
C3_Witness ==
  \E c, d \in Callers :
    /\ Done(c, "Update")
    /\ err[c] = NoError
    /\ book[c][1].Version # arg[c].version
    /\ Done(d, "Insert")
    /\ err[d] = NoError
    /\ book[d][1].ID = arg[c].id
    /\ book[d][1].Version = arg[c].version
    /\ \E r \in books :
         /\ r.id = arg[c].id
         /\ HoldsFields(r, arg[c])
         /\ ~HoldsFields(r, arg[d])
         /\ r.version = book[c][1].Version

\* The record an Insert wrote back is still stored with the Version the
\* Insert returned: no Update or Delete of it has happened since.
Untouched(b) == \E r \in books : r.id = b.ID /\ r.version = b.Version

\* C4: after a successful Insert the caller's book keeps its fields and
\* carries the ID, CreatedAt and Version the store assigned; a Get of that
\* ID, with no Update or Delete of the record in between, returns the
\* inserted fields and the ID, CreatedAt and Version that Insert wrote back.
C4_InsertThenGet ==
  \A c \in Callers :
    (Done(c, "Insert") /\ err[c] = NoError) =>
      LET b == book[c][1]
      IN /\ b.ID >= 1
         /\ b.CreatedAt \in Times
         /\ b.Version >= 1
         /\ b.Title = arg[c].title
         /\ b.Content = arg[c].content
         /\ b.Year = arg[c].year
         /\ b.Pages = arg[c].pages
         /\ b.Genres = arg[c].genres
         /\ \A d \in Callers :
              (/\ Done(d, "Get")
               /\ err[d] = NoError
               /\ arg[d].id = b.ID
               /\ Untouched(b))
              => book[d] = <<b>>

C4_Witness ==
  \E c, d \in Callers :
    /\ Done(c, "Insert")
    /\ err[c] = NoError
    /\ Done(d, "Get")
    /\ err[d] = NoError
    /\ arg[d].id = book[c][1].ID
    /\ Untouched(book[c][1])
    /\ book[d] = book[c]

\* C5: when the store executes a Delete of an id that has no row, the call
\* returns ErrRecordNotFound and the table is unchanged; a Delete of an id
\* that has a row returns no error and removes exactly that row; an id that
\* was deleted never has a row again, and every Get of an id without a row
\* that the store executes returns ErrRecordNotFound and no book.
C5_Delete ==
  [][/\ \A c \in Callers :
          (Exec(c, "Delete") /\ Answered(err'[c])) =>
            IF arg[c].id \in Ids(books)
            THEN /\ err'[c] = NoError
                 /\ books' = {r \in books : r.id # arg[c].id}
                 /\ Cardinality(books') = Cardinality(books) - 1
            ELSE /\ err'[c] = ErrRecordNotFound
                 /\ books' = books
     /\ \A id \in 1..idSeq : id \notin Ids(books) => id \notin Ids(books')
     /\ \A c \in Callers :
          (/\ Exec(c, "Get")
           /\ Answered(err'[c])
           /\ arg[c].id \notin Ids(books))
          => err'[c] = ErrRecordNotFound /\ book'[c] = <<>>]_vars

C5_Witness ==
  \E c, d \in Callers :
    /\ Done(c, "Delete")
    /\ err[c] = NoError
    /\ Done(d, "Get")
    /\ arg[d].id = arg[c].id
    /\ err[d] = ErrRecordNotFound
    /\ ~overlap
    /\ arg[c].id \in 1..idSeq
    /\ arg[c].id \notin Ids(books)
    /\ books # {}

\* A call of Get or Delete is made in this step.
Called(c, op) == pc[c] = "idle" /\ pc'[c] # "idle" /\ arg'[c].op = op

\* C6: a Get or Delete with id < 1 returns ErrRecordNotFound at once: no
\* statement is sent and the table is unchanged.  A Get with id >= 1 that
\* the store executes returns ErrRecordNotFound only when no row has the id
\* and the row when one has; of an id without a row it returns
\* ErrRecordNotFound or, when the store fails, the store's error, which is
\* not ErrRecordNotFound.
C6_NotFoundAndStoreError ==
  [][/\ \A c \in Callers : \A op \in {"Get", "Delete"} :
          (Called(c, op) /\ arg'[c].id < 1) =>
            /\ pc'[c] = "done"
            /\ err'[c] = ErrRecordNotFound
            /\ book'[c] = <<>>
            /\ books' = books
     /\ \A c \in Callers : \A op \in {"Get", "Delete"} :
          (Called(c, op) /\ arg'[c].id >= 1) => pc'[c] = "sent"
     /\ \A c \in Callers :
          Exec(c, "Get") =>
            /\ arg[c].id >= 1
            /\ books' = books
            /\ err'[c] \in {NoError, ErrRecordNotFound, StoreError}
            /\ err'[c] = ErrRecordNotFound => arg[c].id \notin Ids(books)
            /\ err'[c] = NoError =>
                 \E r \in books : r.id = arg[c].id /\ book'[c] = <<ScanRow(r)>>
            /\ arg[c].id \notin Ids(books) =>
                 err'[c] \in {ErrRecordNotFound, StoreError}
            /\ err'[c] # NoError => book'[c] = <<>>
     /\ StoreError # ErrRecordNotFound]_vars

C6_Witness ==
  \E c, d \in Callers :
    /\ Done(c, "Get")
    /\ arg[c].id < 1
    /\ err[c] = ErrRecordNotFound
    /\ Done(d, "Get")
    /\ arg[d].id >= 1
    /\ arg[d].id \in Ids(books)
    /\ err[d] = StoreError

\* C7: the table never holds two rows with one id; an Insert that the store
\* executes gets an id greater than every id handed out before, which is
\* the id of no stored row and of no book a caller got from the store, also
\* after rows were deleted; two Inserts that succeeded hold different IDs; and an
\* Update changes neither the ids of the stored rows nor the ID of the
\* caller's book.
C7_IdsNeverReused ==
  /\ [](/\ \A r, q \in books : r.id = q.id => r = q
        /\ Ids(books) \subseteq 1..idSeq
        /\ \A c, d \in Callers :
             (/\ c # d
              /\ Done(c, "Insert") /\ err[c] = NoError
              /\ Done(d, "Insert") /\ err[d] = NoError)
             => book[c][1].ID # book[d][1].ID)
  /\ [][/\ idSeq' >= idSeq
        /\ \A c \in Callers :
             (Exec(c, "Insert") /\ err'[c] = NoError) =>
               LET id == book'[c][1].ID
               IN /\ id > idSeq
                  /\ id \notin Ids(books)
                  /\ Ids(books') = Ids(books) \cup {id}
                  /\ \A d \in Callers \ {c} :
                       (/\ pc[d] = "done"
                        /\ arg[d].op \in {"Insert", "Get"}
                        /\ err[d] = NoError)
                       => book[d][1].ID # id
        /\ \A c \in Callers :
             Exec(c, "Update") =>
               /\ Ids(books') = Ids(books)
               /\ book'[c][1].ID = book[c][1].ID
               /\ idSeq' = idSeq]_vars

C7_Witness ==
  \E c, d \in Callers :
    /\ Done(c, "Insert")
    /\ err[c] = NoError
    /\ Done(d, "Delete")
    /\ err[d] = NoError
    /\ ~overlap
    /\ arg[d].id < book[c][1].ID
    /\ Ids(books) = {book[c][1].ID}

\* ---- Search: the properties below are stated of the single caller of
\* SpecSearch, whose result is still the answer to the table as it stands.

\* The title matches the query: every word of the query is a word of the
\* title, letter case apart.
TitleMatches(t, q) ==
  \A i \in DOMAIN q : \E j \in DOMAIN t : Lower(q[i]) = Lower(t[j])

MatchRule(r, q, g) ==
  /\ q = <<>> \/ TitleMatches(r.title, q)
  /\ g = <<>> \/ Range(g) \subseteq Range(r.genres)

Matching(a) == {r \in books : MatchRule(r, a.title, a.genres)}

Searched(c) == Done(c, "GetAll") /\ err[c] = NoError

\* C8 as claimed: after every Search, totalRecords is the number of stored
\* records that satisfy the matching rule, whatever the page size and page.
C8_TotalRecordsAnyPage ==
  \A c \in Callers :
    Searched(c) =>
      out[c].metadata.TotalRecords = Cardinality(Matching(arg[c]))

\* C8: after a Search whose window holds a record, (page-1)*pageSize below
\* the number of matching records, totalRecords is the number of stored
\* records that satisfy the matching rule, whatever the page size and page;
\* after a Search whose window is empty, Metadata is the zero value.
C8_TotalRecordsOfNonEmptyPage ==
  \A c \in Callers :
    Searched(c) =>
      LET n == Cardinality(Matching(arg[c]))
          off == (arg[c].filters.Page - 1) * arg[c].filters.PageSize
      IN IF off < n
         THEN out[c].metadata.TotalRecords = n
         ELSE out[c].metadata = ZeroMetadata

C8_Witness ==
  \E c \in Callers :
    /\ Searched(c)
    /\ arg[c].filters.Page = 2
    /\ arg[c].filters.PageSize = 1
    /\ arg[c].genres = <<"fantasy">>
    /\ Cardinality(Matching(arg[c])) = 2
    /\ out[c].metadata.TotalRecords = 2
    /\ Len(out[c].books.items) = 1

\* C9: a Search returns only stored records that satisfy the matching rule,
\* as many of them as the window holds (all stored records of the window
\* when title query and genre filter are both empty), and returns the same
\* whatever the content query is.
C9_OnlyMatchingRecords ==
  \A c \in Callers :
    Searched(c) =>
      LET items == out[c].books.items
          n == Cardinality(Matching(arg[c]))
          off == (arg[c].filters.Page - 1) * arg[c].filters.PageSize
          rest == IF off < n THEN n - off ELSE 0
      IN /\ \A i \in DOMAIN items :
              \E r \in Matching(arg[c]) : items[i] = ScanRow(r)
         /\ \A i, j \in DOMAIN items : items[i] = items[j] => i = j
         /\ Len(items) = Min(arg[c].filters.PageSize, rest)
         /\ (arg[c].title = <<>> /\ arg[c].genres = <<>> /\ off = 0)
              => Len(items) = Min(arg[c].filters.PageSize, Cardinality(books))
         /\ \A content \in ContentQueries :
              out[c].books =
                ScanBooks(GetAllQuery(books, [arg[c] EXCEPT !.content = content]))

C9_Witness ==
  \E c \in Callers :
    /\ Searched(c)
    /\ arg[c].genres = <<"fantasy", "adventure">>
    /\ arg[c].title = <<"Hobbit">>
    /\ arg[c].content # ""
    /\ \E r \in books : r.genres = <<"fantasy">> /\ TitleMatches(r.title, arg[c].title)
    /\ Len(out[c].books.items) = 1
    /\ out[c].books.items[1].Title = <<"The", "Hobbit">>

\* C10: a Search that the store answers while no stored record satisfies
\* the matching rule returns no error, an empty sequence that is not nil,
\* and the zero-value Metadata.
C10_NoMatchEmptyResult ==
  \A c \in Callers :
    (/\ Done(c, "GetAll")
     /\ Answered(err[c])
     /\ Matching(arg[c]) = {})
    => /\ err[c] = NoError
       /\ out[c].books.isNil = FALSE
       /\ out[c].books.items = <<>>
       /\ out[c].metadata = ZeroMetadata

C10_Witness ==
  \E c \in Callers :
    /\ Searched(c)
    /\ books # {}
    /\ Matching(arg[c]) = {}
    /\ out[c].books = [isNil |-> FALSE, items |-> <<>>]
    /\ out[c].metadata = ZeroMetadata

\* ---- calculateMetadata: stated of the single caller of SpecMetadata.

\* ceil(n / s): the least k with k * s >= n.
Ceil(n, s) == CHOOSE k \in 0..n : k * s >= n /\ (k = 0 \/ (k - 1) * s < n)

\* C11: calculateMetadata changes nothing but its result, which is a
\* function of its arguments alone: the zero-value Metadata when
\* totalRecords is 0, whatever page and pageSize are, and otherwise
\* FirstPage 1, LastPage ceil(totalRecords / pageSize), CurrentPage page,
\* PageSize pageSize and TotalRecords totalRecords.
C11_CalculateMetadata ==
  \A c \in Callers :
    Done(c, "calculateMetadata") =>
      LET n == arg[c].totalRecords
          p == arg[c].page
          s == arg[c].pageSize
          m == out[c].metadata
      IN /\ n = 0 => m = ZeroMetadata
         /\ (n > 0 /\ s > 0) =>
              /\ m.FirstPage = 1
              /\ m.LastPage = Ceil(n, s)
              /\ m.CurrentPage = p
              /\ m.PageSize = s
              /\ m.TotalRecords = n
         /\ books = {} /\ idSeq = 0 /\ uuidSeq = 0
         /\ book[c] = <<>> /\ err[c] = NoError

C11_Witness ==
  \E c \in Callers :
    /\ Done(c, "calculateMetadata")
    /\ arg[c].totalRecords = 7
    /\ arg[c].pageSize = 3
    /\ arg[c].page = 2
    /\ out[c].metadata.LastPage = 3

\* ---- Pages: stated of the single caller of SpecPages.
Encoded(c) == Done(c, "MarshalJSON")
Decoded(c) == Done(c, "UnmarshalJSON")

AllDigits(t) == t # <<>> /\ \A i \in DOMAIN t : IsDigit(t[i])

\* An integer in decimal: digits with an optional sign.
IsIntegerText(t) ==
  t # <<>> /\ AllDigits(IF Head(t) \in {"+", "-"} THEN Tail(t) ELSE t)

\* The numeral of a non-negative integer: digits, no leading zero.
IsNumeral(t) == AllDigits(t) /\ (Len(t) = 1 \/ Head(t) # "0")

RECURSIVE Pow10(_)
Pow10(k) == IF k = 0 THEN 1 ELSE 10 * Pow10(k - 1)

\* Numeral t denotes n, for 0 <= n <= MaxInt32.
Denotes(t, n) ==
  /\ IsNumeral(t)
  /\ Len(t) <= 10
  /\ n >= 0
  /\ Len(t) = 10 \/ n < Pow10(Len(t))
  /\ \A i \in DOMAIN t : DigitValue(t[i]) = (n \div Pow10(Len(t) - i)) % 10

\* The digits of an integer text, leading zeros dropped.
RECURSIVE Strip(_)
Strip(d) == IF Len(d) > 1 /\ Head(d) = "0" THEN Strip(Tail(d)) ELSE d

Magnitude(t) == Strip(IF Head(t) \in {"+", "-"} THEN Tail(t) ELSE t)

\* Numeral a is at most numeral b.
NumeralLeq(a, b) ==
  \/ Len(a) < Len(b)
  \/ /\ Len(a) = Len(b)
     /\ \/ a = b
        \/ \E i \in DOMAIN a :
             /\ DigitValue(a[i]) < DigitValue(b[i])
             /\ \A j \in 1..(i - 1) : a[j] = b[j]

\* The integer text lies in -2147483648 .. 2147483647.
InInt32(t) ==
  NumeralLeq(Magnitude(t),
             IF Head(t) = "-"
             THEN <<"2", "1", "4", "7", "4", "8", "3", "6", "4", "8">>
             ELSE <<"2", "1", "4", "7", "4", "8", "3", "6", "4", "7">>)

\* The text "<t> pages" between quotes q.
PagesText(q, t) == <<q>> \o t \o <<" ">> \o PagesWord \o <<q>>

\* What stands before " pages" and the closing quote.
CountOf(j) == IF Len(j) < 9 THEN <<>> ELSE SubSeq(j, 2, Len(j) - 7)

\* The decoded value v is the integer that text t writes.
Writes(t, v) ==
  IF Head(t) = "-"
  THEN /\ v <= 0
       /\ IF v = MinInt32
          THEN Magnitude(t) = <<"2", "1", "4", "7", "4", "8", "3", "6", "4", "8">>
          ELSE Denotes(Magnitude(t), -v)
  ELSE Denotes(Magnitude(t), v)

\* C12 as claimed: encoding any n >= 0 gives the double-quoted text
\* "<n> pages", decoding that text gives n for every non-negative integer n,
\* and decoding any text that is not a double-quoted "<integer> pages" fails
\* with ErrInvalidPageFormat and leaves the target as it was.
C12_RoundTripAnyInteger ==
  \A c \in Callers :
    /\ (Encoded(c) /\ arg[c].r >= 0) =>
         /\ out[c].json = PagesText(DQ, CountOf(out[c].json))
         /\ Denotes(CountOf(out[c].json), arg[c].r)
    /\ Decoded(c) =>
         LET j == arg[c].jsonValue
             t == CountOf(j)
         IN /\ (j = PagesText(DQ, t) /\ IsNumeral(t)) =>
                 /\ err[c] = NoError
                 /\ Denotes(t, book[c][1].Pages)
            /\ ~(j = PagesText(DQ, t) /\ IsIntegerText(t)) =>
                 /\ err[c] = ErrInvalidPageFormat
                 /\ book[c][1].Pages = arg[c].r

\* The texts UnmarshalJSON decodes: "<integer> pages" between double quotes
\* or between back quotes, the integer within the int32 range.
Accepted(j) ==
  /\ Len(j) >= 9
  /\ j[1] \in {DQ, BQ}
  /\ j = PagesText(j[1], CountOf(j))
  /\ IsIntegerText(CountOf(j))
  /\ InInt32(CountOf(j))

\* C12: encoding any int32 value n gives the double-quoted text "<n> pages"
\* (for n >= 0 the numeral of n), and decoding it gives n back; decoding
\* succeeds exactly on a double-quoted or back-quoted "<integer> pages" whose
\* integer (digits with an optional sign) lies in the int32 range, and gives
\* that integer; decoding any other text fails with ErrInvalidPageFormat and
\* leaves the target as it was.
C12_RoundTripInt32 ==
  \A c \in Callers :
    /\ Encoded(c) =>
         LET j == out[c].json
             t == CountOf(j)
         IN /\ j = PagesText(DQ, t)
            /\ IF arg[c].r >= 0 THEN Denotes(t, arg[c].r)
               ELSE Head(t) = "-" /\ IsNumeral(Tail(t)) /\ Writes(t, arg[c].r)
            /\ \A r \in TargetValues :
                 UnmarshalJSON(r, j) = [err |-> NoError, r |-> arg[c].r]
    /\ Decoded(c) =>
         LET j == arg[c].jsonValue
         IN IF Accepted(j)
            THEN /\ err[c] = NoError
                 /\ Writes(CountOf(j), book[c][1].Pages)
            ELSE /\ err[c] = ErrInvalidPageFormat
                 /\ book[c][1].Pages = arg[c].r

C12_Witness ==
  \E c \in Callers :
    /\ Decoded(c)
    /\ arg[c].jsonValue =
         PagesText(DQ, <<"2", "1", "4", "7", "4", "8", "3", "6", "4", "7">>)
    /\ arg[c].r = 7
    /\ err[c] = NoError
    /\ book[c][1].Pages = MaxInt32

\* ---- Validation: stated of the single caller of SpecUnvalidated.
Tagged(rows) == \A r \in rows : r.genres # <<>>

\* C13 as claimed: no stored record has zero genres, whatever Insert and
\* Update calls were made on the repository.
C13_GenresNeverEmpty == Tagged(books)

\* C13: Insert and Update store the genres they are handed, so while every
\* book handed to them has passed ValidateBook no stored record has zero
\* genres: a step from a store without such a record leads to a store
\* without one, unless it executes the Insert or Update of a book that
\* ValidateBook rejects; and an Insert or Update of a book with no genres
\* that the store answers with success leaves exactly such a record.
C13_ValidatedGenresNeverEmpty ==
  [][/\ (/\ Tagged(books)
         /\ \A c \in Callers :
              (Exec(c, "Insert") \/ Exec(c, "Update"))
                => ValidateBook(book[c][1]))
        => Tagged(books')
     /\ \A c \in Callers :
          (/\ Exec(c, "Insert") \/ Exec(c, "Update")
           /\ err'[c] = NoError
           /\ book[c][1].Genres = <<>>)
          => \E r \in books' : r.id = book'[c][1].ID /\ r.genres = <<>>]_vars

C13_Witness ==
  \E c \in Callers :
    /\ Done(c, "Update")
    /\ err[c] = NoError
    /\ ValidateBook(book[c][1])
    /\ Cardinality(books) = 2
    /\ Tagged(books)
    /\ \A r \in books : HoldsFields(r, arg[c])

\* ---- Races: stated of the two callers of Spec.

\* Two Updates in flight together, for the same record and with the Version
\* the record has in the store.
RacingUpdates(c, d) ==
  /\ c # d
  /\ pc[c] = "sent" /\ arg[c].op = "Update"
  /\ pc[d] = "sent" /\ arg[d].op = "Update"
  /\ arg[c].id = arg[d].id
  /\ arg[c].version = arg[d].version
  /\ \E r \in books : r.id = arg[c].id /\ r.version = arg[c].version

\* C14: of two Updates in flight together with the current Version of one
\* record, neither waits for the other: whichever the store executes first
\* commits if the store answers it (the record gets its fields and a new
\* Version), and from then on the other one's Version matches no record; the
\* one executed second changes nothing and returns ErrEditConflict if the
\* store answers it; so once both have finished, one that succeeded faces an
\* ErrEditConflict of the other.
C14_RacingUpdatesOneCommits ==
  /\ [](\A c, d \in Callers :
          (RacedUpdates(c, d) /\ err[c] = NoError /\ Answered(err[d]))
            => err[d] = ErrEditConflict)
  /\ [][\A c, d \in Callers :
          /\ (RacingUpdates(c, d) /\ Exec(c, "Update")) =>
               /\ pc'[d] = "sent"
               /\ Answered(err'[c]) =>
                    /\ err'[c] = NoError
                    /\ \E r \in books' :
                         /\ r.id = arg[c].id
                         /\ HoldsFields(r, arg[c])
                         /\ r.version # arg[c].version
               /\ books' # books =>
                    \A r \in books' :
                      ~(r.id = arg[d].id /\ r.version = arg[d].version)
          /\ (/\ c # d
              /\ overlap
              /\ Done(c, "Update")
              /\ err[c] = NoError
              /\ arg[d].op = "Update"
              /\ arg[d].id = arg[c].id
              /\ arg[d].version = arg[c].version
              /\ Exec(d, "Update")
              /\ Answered(err'[d]))
             => /\ err'[d] = ErrEditConflict
                /\ books' = books]_vars

C14_Witness ==
  /\ RacedUpdates("c1", "c2")
  /\ err["c2"] = NoError
  /\ err["c1"] = ErrEditConflict
  /\ \E r \in books :
       /\ r.id = arg["c2"].id
       /\ HoldsFields(r, arg["c2"])
       /\ r.version = book["c2"][1].Version
       /\ r.version # arg["c1"].version

\* C15: whenever the store executes and answers an Update whose id and
\* Version together match no stored record, the call returns ErrEditConflict
\* in that one step and neither the table nor the caller's book changes;
\* this is so when no record has the id at all (deleted, or never there):
\* the error is ErrEditConflict then too, not ErrRecordNotFound.
C15_ZeroRowsIsEditConflict ==
  [][\A c \in Callers :
       (/\ Exec(c, "Update")
        /\ Answered(err'[c])
        /\ \/ arg[c].id \notin Ids(books)
           \/ \A r \in books : r.id = arg[c].id => r.version # arg[c].version)
       => /\ err'[c] = ErrEditConflict
          /\ err'[c] # ErrRecordNotFound
          /\ books' = books
          /\ book'[c] = book[c]]_vars

C15_Witness ==
  \E c, d \in Callers :
    /\ overlap
    /\ Done(c, "Update")
    /\ err[c] = ErrEditConflict
    /\ Done(d, "Delete")
    /\ err[d] = NoError
    /\ arg[d].id = arg[c].id
    /\ arg[c].id \notin Ids(books)
    /\ books # {}

\* ---- Atomic Update: stated of the writer and the reader of SpecObserve.

\* The books a caller has read with Get or GetAll and still holds.
Observed(c) ==
  IF Done(c, "Get") /\ err[c] = NoError THEN {book[c][1]}
  ELSE IF Searched(c) THEN Range(out[c].books.items)
  ELSE {}

\* Book b is what row r holds, field by field.
Shows(b, r) ==
  /\ b.ID = r.id
  /\ b.CreatedAt = r.created_at
  /\ b.Title = r.title
  /\ b.Content = r.content
  /\ b.Year = r.year
  /\ b.Pages = r.pages
  /\ b.Genres = r.genres
  /\ b.Version = r.version

\* C16: an Update that succeeds changes the table in the one step in which
\* the store executes it: the record with its id keeps ID and CreatedAt,
\* gets all five supplied fields and a Version no stored record had, and
\* every other record stays as it was; every book a Get or a Search reads is
\* a whole record of the table at that step; and a book read earlier that
\* has the ID and Version of a stored record equals that record in every
\* field, so fields of one state never come with the Version of another.
C16_UpdateAtomicFrame ==
  /\ [](\A c \in Callers : \A b \in Observed(c) : \A r \in books :
          (b.ID = r.id /\ b.Version = r.version) => Shows(b, r))
  /\ [][\A c \in Callers :
          /\ (Exec(c, "Update") /\ err'[c] = NoError) =>
               \E old \in books, new \in books' :
                 /\ old.id = arg[c].id
                 /\ new.id = old.id
                 /\ new.created_at = old.created_at
                 /\ HoldsFields(new, arg[c])
                 /\ new.version \notin {r.version : r \in books}
                 /\ books' \ {new} = books \ {old}
                 /\ idSeq' = idSeq
          /\ (Exec(c, "Get") /\ err'[c] = NoError) =>
               \E r \in books : Shows(book'[c][1], r)
          /\ (Exec(c, "GetAll") /\ err'[c] = NoError) =>
               \A b \in Range(out'[c].books.items) :
                 \E r \in books : Shows(b, r)]_vars

C16_Witness ==
  /\ overlap
  /\ Done("c1", "Update")
  /\ err["c1"] = NoError
  /\ Done("c2", "Get")
  /\ err["c2"] = NoError
  /\ book["c2"][1].ID = arg["c1"].id
  /\ book["c2"][1].Version = arg["c1"].version
  /\ book["c2"][1].Genres # arg["c1"].genres
  /\ Cardinality(books) = 2
  /\ \E r \in books : r.id = arg["c1"].id /\ HoldsFields(r, arg["c1"])

\* ---- Pagination: stated of the single caller of SpecSearch.

\* Book x stands before book y under the requested sort, ties by ID.
SortKey(b, sort) ==
  LET col == sort[Len(sort)]
  IN IF col = "id" THEN b.ID ELSE IF col = "year" THEN b.Year ELSE b.Pages

Precedes(x, y, sort) ==
  LET kx == SortKey(x, sort)
      ky == SortKey(y, sort)
  IN \/ Head(sort) # "-" /\ kx < ky
     \/ Head(sort) = "-" /\ kx > ky
     \/ kx = ky /\ x.ID < y.ID

\* What the same Search returns for page p of the table as it stands.
PageOf(a, p) ==
  ScanBooks(GetAllQuery(books, [a EXCEPT !.filters.Page = p])).items

\* C17: a Search returns the window of its page: with n matching records
\* and page size s, page p of 1..ceil(n/s) holds between 1 and s records and
\* exactly the records left after (p-1)*s when fewer than s are left; two
\* different pages share no record, all pages together hold every matching
\* record and nothing else, and any record stands before every later one of
\* its page and every one of a later page under the sort column and
\* direction, records with equal sort values by ascending ID.
C17_PagesPartitionInOrder ==
  \A c \in Callers :
    Searched(c) =>
      LET a == arg[c]
          n == Cardinality(Matching(a))
          s == a.filters.PageSize
          sort == a.filters.Sort
          pages == 1..Ceil(n, s)
      IN /\ out[c].books.items = PageOf(a, a.filters.Page)
         /\ a.filters.Page \notin pages => out[c].books.items = <<>>
         /\ \A p \in pages :
              /\ Len(PageOf(a, p)) = Min(s, n - (p - 1) * s)
              /\ Len(PageOf(a, p)) >= 1
              /\ \A i, j \in DOMAIN PageOf(a, p) :
                   i < j => Precedes(PageOf(a, p)[i], PageOf(a, p)[j], sort)
         /\ \A p, q \in pages :
              p < q =>
                /\ Range(PageOf(a, p)) \cap Range(PageOf(a, q)) = {}
                /\ \A x \in Range(PageOf(a, p)), y \in Range(PageOf(a, q)) :
                     Precedes(x, y, sort)
         /\ UNION {Range(PageOf(a, p)) : p \in pages}
              = {ScanRow(r) : r \in Matching(a)}

C17_Witness ==
  \E c \in Callers :
    /\ Searched(c)
    /\ arg[c].filters = [Page |-> 2, PageSize |-> 1, Sort |-> <<"-", "year">>]
    /\ Cardinality(Matching(arg[c])) = 2
    /\ \A r \in books : r.year = 1937
    /\ Len(out[c].books.items) = 1
    /\ out[c].books.items[1].ID = 2

\* ---- Version tokens: stated of the two callers of Spec.
Versions(rows) == {r.version : r \in rows}

\* C18: a Version is never given twice: every Version a step writes to a
\* record is one the store never handed out before, so a Version that is
\* gone from the table stays gone; and an Update that supplies a Version
\* its record does not have (any more) changes nothing and does not succeed,
\* however many Updates the record has had since.
C18_VersionNeverReused ==
  [][/\ uuidSeq' >= uuidSeq
     /\ \A q \in books' :
          \/ q \in books
          \/ q.version \notin 1..uuidSeq /\ q.version \in 1..uuidSeq'
     /\ \A v \in 1..uuidSeq :
          v \notin Versions(books) => v \notin Versions(books')
     /\ \A c \in Callers :
          (/\ Exec(c, "Update")
           /\ \A r \in books : r.id = arg[c].id => r.version # arg[c].version)
          => /\ err'[c] # NoError
             /\ books' = books]_vars

C18_Witness ==
  \E c \in Callers :
    /\ Done(c, "Update")
    /\ err[c] = ErrEditConflict
    /\ arg[c].version = 1
    /\ \E r \in books :
         /\ r.id = arg[c].id
         /\ r.version = 3
         /\ HoldsFields(r, arg[c])

\* An Update and a Delete of one record that were in flight together and
\* have both finished.
RacedUpdateDelete(c, d) ==
  /\ c # d
  /\ overlap
  /\ Done(c, "Update")
  /\ Done(d, "Delete")
  /\ arg[c].id = arg[d].id

\* C19: whenever the store executes and answers the Delete of a stored id,
\* the call succeeds and removes that record and no other, whatever Version
\* the record has; an Update of the record that the store executes after a
\* Delete in flight with it has succeeded returns ErrEditConflict if the
\* store answers it and changes nothing; and once an Update and a successful
\* Delete of one record that were in flight together have both finished, the
\* record is absent and the Update has either succeeded or failed.
C19_DeleteIgnoresVersion ==
  /\ [](\A c, d \in Callers :
          (RacedUpdateDelete(c, d) /\ err[d] = NoError) =>
            /\ arg[d].id \notin Ids(books)
            /\ Answered(err[c]) => err[c] \in {NoError, ErrEditConflict})
  /\ [][\A c, d \in Callers :
          /\ (/\ Exec(d, "Delete")
              /\ Answered(err'[d])
              /\ arg[d].id \in Ids(books))
             => /\ err'[d] = NoError
                /\ books' = {r \in books : r.id # arg[d].id}
          /\ (/\ c # d
              /\ overlap
              /\ Done(d, "Delete")
              /\ err[d] = NoError
              /\ arg[c].op = "Update"
              /\ arg[c].id = arg[d].id
              /\ Exec(c, "Update")
              /\ Answered(err'[c]))
             => /\ err'[c] = ErrEditConflict
                /\ books' = books]_vars

C19_Witness ==
  \E c, d \in Callers :
    /\ RacedUpdateDelete(c, d)
    /\ err[c] = NoError
    /\ err[d] = NoError
    /\ book[c][1].Version # arg[c].version
    /\ arg[d].id \notin Ids(books)
    /\ books # {}

====
